---- MODULE Spec2Model ----
(***************************************************************************)
(* Model of MarkovModel/IdealObserver.py: the IdealObserver wrapper, its   *)
(* option parsing, the derived metrics (surprise, alpha table, Bayesian    *)
(* surprise, confidence-corrected surprise) and the binary predictions.    *)
(*                                                                         *)
(* Numbers.  Every numeric value is a record [k, n, d]:                    *)
(*   k = "rat"      the rational n/d (d > 0, lowest terms)                 *)
(*   k = "nan"      numpy NaN                                              *)
(*   k = "inf"      +infinity                                              *)
(*   k = "sqrt"     the square root of the rational n/d                    *)
(*   k = "neglog2"  -log2 of the rational n/d                              *)
(*   k = "exp2"     2 to the power n/d                                     *)
(* Irrational results are kept exact in this symbolic form.  Python None   *)
(* is the record None; a present value v is Some(v).  A Python exception   *)
(* is the record Raise(type, at).                                          *)
(***************************************************************************)
EXTENDS Integers, Sequences, FiniteSets, TLC

\* ------------------------------------------------------------------ bounds
MaxLen == 2
MaxOrder == 1

\* --------------------------------------------------------- python values
None == [none |-> TRUE]
Some(v) == [none |-> FALSE, v |-> v]
\* an exception of the given type, raised at the given place of the code
Raise(type, at) == [raised |-> TRUE, exc |-> [type |-> type, at |-> at]]
Ok(v) == [raised |-> FALSE, v |-> v]

\* A function or array as an explicit table: every entry is computed once,
\* when the table is built
Tab(f) == f @@ <<>>

\* ---------------------------------------------------------------- numbers
RECURSIVE GCD(_, _)
GCD(a, b) == IF b = 0 THEN a ELSE GCD(b, a % b)

Abs(x) == IF x < 0 THEN -x ELSE x

NaN == [k |-> "nan", n |-> 0, d |-> 1]
Inf == [k |-> "inf", n |-> 1, d |-> 1]

\* the rational n/d, d > 0, in lowest terms
R(n, d) ==
    LET g == GCD(Abs(n), d)
    IN  [k |-> "rat", n |-> n \div g, d |-> d \div g]

Int2R(i) == [k |-> "rat", n |-> i, d |-> 1]

IsRat(x) == x.k = "rat"

RAdd(x, y) ==
    IF ~(IsRat(x) /\ IsRat(y)) THEN NaN
    ELSE IF x.n = 0 THEN y
    ELSE IF y.n = 0 THEN x
    ELSE R(x.n * y.d + y.n * x.d, x.d * y.d)

RSub(x, y) ==
    IF ~(IsRat(x) /\ IsRat(y)) THEN NaN
    ELSE IF y.n = 0 THEN x
    ELSE R(x.n * y.d - y.n * x.d, x.d * y.d)

RMul(x, y) ==
    IF ~(IsRat(x) /\ IsRat(y)) THEN NaN
    ELSE IF x.n = 0 \/ y.n = 0 THEN Int2R(0)
    ELSE R(x.n * y.n, x.d * y.d)

\* numpy division: x/0 is nan for x = 0 and inf for x > 0 (a warning, no exception)
RDiv(x, y) ==
    IF ~(IsRat(x) /\ IsRat(y)) THEN NaN
    ELSE IF y.n = 0 THEN (IF x.n > 0 THEN Inf ELSE NaN)
    ELSE IF y.n > 0 THEN R(x.n * y.d, x.d * y.n)
    ELSE R(-(x.n * y.d), x.d * (-y.n))

RPos(x) == IsRat(x) /\ x.n > 0

\* np.sqrt
Sqrt(x) ==
    IF IsRat(x) /\ x.n >= 0 THEN [k |-> "sqrt", n |-> x.n, d |-> x.d] ELSE NaN

\* -np.log2
NegLog2(x) ==
    IF ~IsRat(x) THEN NaN
    ELSE IF x.n = 0 THEN Inf
    ELSE IF x.n < 0 THEN NaN
    ELSE [k |-> "neglog2", n |-> x.n, d |-> x.d]

RECURSIVE RSum(_)
RSum(s) == IF s = <<>> THEN Int2R(0) ELSE RAdd(Head(s), RSum(Tail(s)))

RECURSIVE RPow(_, _)
RPow(x, e) == IF e = 0 THEN Int2R(1) ELSE RMul(x, RPow(x, e - 1))

\* ------------------------------------------------------------ str.lower()
\* The strings the model uses, with the mixed-case spellings among them.
Lower(s) ==
    CASE s = "Fixed" -> "fixed"
      [] s = "Hmm_Uncoupled" -> "hmm_uncoupled"
      [] s = "HMM+Full" -> "hmm+full"
      [] s = "P_C" -> "p_c"
      [] s = "Resol" -> "resol"
      [] s = "Prior_Weight" -> "prior_weight"
      [] OTHER -> s

\* ------------------------------------------------------- patterns, contexts
\* itertools.product(range(Nitem), repeat=order): tuples of length `order`
Contexts(Nitem, order) == [1..order -> 0..(Nitem - 1)]
\* the (order+1)-tuples: a context followed by an item
Patterns(Nitem, order) == [1..(order + 1) -> 0..(Nitem - 1)]

Last(p) == p[Len(p)]
Front(p) == SubSeq(p, 1, Len(p) - 1)

\* ----------------------------------------------------------------- inputs
\* Sequences of 1..MaxLen symbols; the symbol 2 is the pause sentinel of a
\* binary sequence (value == Nitem) and an ordinary item of a larger alphabet.
Symbols == 0..2
SeqChoices == UNION {[1..n -> Symbols] : n \in 1..MaxLen}

\* each observer type once, three of them in mixed case, and a string that
\* names no observer type
ObsTypeChoices ==
    {"Fixed", "hmm", "Hmm_Uncoupled", "HMM+Full", "hmm_uncoupled+full", "window"}

OrderChoices == 0..MaxOrder

\* Nitem omitted (None: inferred from the sequence), binary, and the sizes on
\* either side of the p_hat table's last entry
NitemChoices == {None, Some(2), Some(3), Some(4)}

\* custom priors for binary patterns of length L: a well-formed one and one
\* with a zero pseudo-count for item 0
CustomPriorSkew(L) ==
    Tab([p \in [1..L -> 0..1] |-> IF p[L] = 0 THEN Int2R(3) ELSE Int2R(1)])
CustomPriorZero(L) ==
    Tab([p \in [1..L -> 0..1] |-> IF p[L] = 0 THEN Int2R(0) ELSE Int2R(1)])

EmptyDict == [x \in {} |-> x]

\* option dictionaries that concern the fixed observer
FixedOptionDicts ==
    {[prior_weight |-> Int2R(2)],
     ("Prior_Weight" :> Int2R(0)),
     [decay |-> R(1, 2)],
     [window |-> 2]}
    \cup {[custom_prior |-> CustomPriorSkew(L)] : L \in 1..(MaxOrder + 1)}
    \cup {[custom_prior |-> CustomPriorZero(L)] : L \in 1..(MaxOrder + 1)}

\* option dictionaries that concern the observers with a known volatility
HmmOptionDicts ==
    {[p_c |-> R(1, 10)],
     ("P_C" :> R(1, 10)) @@ ("Resol" :> 3),
     [grid_nu |-> <<R(1, 2), R(1, 4)>>]}

\* option dictionaries that concern the observers with an unknown volatility
FullOptionDicts ==
    {("P_C" :> R(1, 10)) @@ ("Resol" :> 3),
     [grid_nu |-> <<R(1, 2), R(1, 4)>>, resol |-> 3],
     [grid_nu |-> <<R(1, 2), R(1, 4)>>, prior_nu |-> <<R(1, 4), R(3, 4)>>, resol |-> 2]}

\* options is a dictionary, or None when the argument is omitted.  Every
\* observer type is called with no options and with an empty dictionary, and
\* with the dictionaries that concern it.
OptionChoices(ot) ==
    {None, EmptyDict}
    \cup (IF Lower(ot) = "fixed" THEN FixedOptionDicts ELSE {})
    \cup (IF Lower(ot) \in {"hmm", "hmm_uncoupled"} THEN HmmOptionDicts ELSE {})
    \cup (IF Lower(ot) \in {"hmm+full", "hmm_uncoupled+full"} THEN FullOptionDicts ELSE {})

\* the posteriors the change-point engines may return (see EngineDist)
EngineSeeds == {0, 1}

\* ------------------------------------------------------- option resolution
\* check_options: a dictionary with every key lower-cased.  options.keys() on
\* None raises AttributeError.
check_options(options) ==
    IF options = None THEN Raise("AttributeError", "check_options")
    ELSE Ok(Tab([k2 \in {Lower(k1) : k1 \in DOMAIN options} |->
                    options[CHOOSE k1 \in DOMAIN options : Lower(k1) = k2]]))

\* io_fixed.symetric_prior: weight spread uniformly over the Nitem items
\* that can follow each context
symetric_prior(order, Nitem, weight) ==
    Tab([p \in Patterns(Nitem, order) |-> RDiv(weight, Int2R(Nitem))])

\* parse_options(options, 'fixed_type') -> (Decay, Window)
parse_options_fixed_type(options) ==
    IF "decay" \in DOMAIN options
    THEN [Decay |-> Some(options["decay"]), Window |-> None]
    ELSE IF "window" \in DOMAIN options
    THEN [Decay |-> None, Window |-> Some(options["window"])]
    ELSE [Decay |-> None, Window |-> None]

\* a resolver that falls back on a default change probability instead of
\* rejecting a dictionary without 'p_c' (C3 is tested against it)
parse_options_hmm_param_default(options) ==
    Ok([resol |-> IF "resol" \in DOMAIN options THEN options["resol"] ELSE 10,
        p_c |-> IF "p_c" \in DOMAIN options THEN options["p_c"] ELSE R(1, 10)])

\* parse_options(options, 'hmm_param') -> (resol, p_c), or ValueError
parse_options_hmm_param(options) ==
    LET resol == IF "resol" \in DOMAIN options THEN options["resol"] ELSE 10
    IN  IF "p_c" \in DOMAIN options
        THEN Ok([resol |-> resol, p_c |-> options["p_c"]])
        ELSE Raise("ValueError", "parse_options")

\* ones(len(grid_nu)) / len(grid_nu)
UniformPrior(grid_nu) == Tab([i \in 1..Len(grid_nu) |-> R(1, Len(grid_nu))])

\* 1/2 ** np.array([k/2 for k in range(20)])
DefaultGridNu == Tab([i \in 1..20 |-> [k |-> "exp2", n |-> -(i - 1), d |-> 2]])

\* parse_options(options, 'hmm+full') -> (resol, grid_nu, prior_nu)
parse_options_hmm_full(options) ==
    LET resol == IF "resol" \in DOMAIN options THEN options["resol"] ELSE 10
        grid_nu == IF "grid_nu" \in DOMAIN options THEN options["grid_nu"]
                   ELSE DefaultGridNu
        prior_nu == IF "grid_nu" \in DOMAIN options /\ "prior_nu" \in DOMAIN options
                    THEN options["prior_nu"]
                    ELSE UniformPrior(grid_nu)
    IN  Ok([resol |-> resol, grid_nu |-> grid_nu, prior_nu |-> prior_nu])

\* parse_options(options, 'fixed_prior') -> prior
parse_options_fixed_prior(options) ==
    IF "prior_weight" \in DOMAIN options
    THEN symetric_prior(options["order"], options["Nitem"], options["prior_weight"])
    ELSE IF "custom_prior" \in DOMAIN options
    THEN options["custom_prior"]
    ELSE symetric_prior(options["order"], options["Nitem"], Int2R(1))

\* ------------------------------------------- fixed observer: counts, posterior
\* TRUE iff the pattern p ends at position u of seq (positions are 1-based:
\* Python trial t is position t + 1)
Occurs(seq, order, p, u) == u > order /\ SubSeq(seq, u - order, u) = p

\* io_fixed.count_tuple: per pattern, the running count at every trial: a plain
\* cumulative count, or only the last Window trials, or every past observation
\* weighted by the decay factor once per elapsed trial
count_tuple(seq, order, Nitem, Decay, Window) ==
    LET T == Len(seq)
        weight(t, u) ==
            IF ~Decay.none THEN RPow(Decay.v, t - u)
            ELSE IF ~Window.none /\ u <= t - Window.v THEN Int2R(0)
            ELSE Int2R(1)
    IN  Tab([p \in Patterns(Nitem, order) |->
            Tab([t \in 1..T |->
                RSum([u \in 1..t |->
                        IF Occurs(seq, order, p, u) THEN weight(t, u) ELSE Int2R(0)])])])

\* io_fixed.posterior_no_jump: closed-form Dirichlet posterior mean, MAP and SD
\* of every pattern at every trial
posterior_no_jump(count, prior, Nitem, order) ==
    IF \E p \in DOMAIN count : p \notin DOMAIN prior THEN Raise("KeyError", "prior")
    ELSE
    LET T == Len(count[CHOOSE p \in DOMAIN count : TRUE])
        \* the Dirichlet parameter of each pattern, and their sum per context
        a == Tab([p \in DOMAIN count |->
                Tab([t \in 1..T |-> RAdd(count[p][t], prior[p])])])
        a0 == Tab([c \in Contexts(Nitem, order) |->
                Tab([t \in 1..T |-> RSum([s \in 1..Nitem |-> a[c \o <<s - 1>>][t]])])])
        allAbove1 == Tab([c \in Contexts(Nitem, order) |->
                Tab([t \in 1..T |->
                    \A s \in 0..(Nitem - 1) : RPos(RSub(a[c \o <<s>>][t], Int2R(1)))])])
        mean(p, t) == RDiv(a[p][t], a0[Front(p)][t])
        MAP(p, t) ==
            IF allAbove1[Front(p)][t]
            THEN RDiv(RSub(a[p][t], Int2R(1)), RSub(a0[Front(p)][t], Int2R(Nitem)))
            ELSE NaN
        SD(p, t) ==
            LET x == a[p][t]
                x0 == a0[Front(p)][t]
            IN  Sqrt(RDiv(RMul(x, RSub(x0, x)), RMul(RMul(x0, x0), RAdd(x0, Int2R(1)))))
    IN  Ok([mean |-> Tab([p \in DOMAIN count |-> Tab([t \in 1..T |-> mean(p, t)])]),
            MAP  |-> Tab([p \in DOMAIN count |-> Tab([t \in 1..T |-> MAP(p, t)])]),
            SD   |-> Tab([p \in DOMAIN count |-> Tab([t \in 1..T |-> SD(p, t)])])])

\* --------------------------------------------------- change-point engines
\* The engines return, per pattern and trial, a distribution over the resol
\* bins of the probability grid.  Their computation is outside this file: the
\* result is one of a family of distributions selected by `seed` (seed 0 puts
\* all mass on one bin, larger seeds split it over two bins).
EngineDist(resol, p, t, seed) ==
    LET b1 == (Last(p) + t + seed) % resol
        b2 == (b1 + seed) % resol
    IN  Tab([g \in 1..resol |->
            RAdd(IF g - 1 = b1 THEN R(1, 2) ELSE Int2R(0),
                 IF g - 1 = b2 THEN R(1, 2) ELSE Int2R(0))])

EnginePosterior(keys, T, resol, seed) ==
    Tab([p \in keys |-> Tab([t \in 1..T |-> EngineDist(resol, p, t, seed)])])

\* io_hmm.compute_inference(seq, resol, order, Nitem, p_c)
io_hmm_compute_inference(seq, resol, order, Nitem, p_c, seed) ==
    EnginePosterior(Patterns(Nitem, order), Len(seq), resol, seed)

\* io_hmm_unc.convert_to_order0: one re-coded sequence per transition context
io_hmm_unc_convert_to_order0(seq, Nitem, order) ==
    Tab([cond \in Contexts(Nitem, order) |-> seq])

\* io_hmm_unc.compute_inference(seq, resol, Nitem, p_c): keyed by the item (s,)
io_hmm_unc_compute_inference(seq, resol, Nitem, p_c, seed) ==
    EnginePosterior(Patterns(Nitem, 0), Len(seq), resol, seed)

\* io_hmm_vol / io_hmm_uncoupled_vol .posterior_prediction
posterior_prediction(seq, order, Nitem, theta_resol, vol_grid, vol_prior, seed) ==
    [marg_theta |-> EnginePosterior(Patterns(Nitem, order), Len(seq), theta_resol, seed),
     post_nu |-> Tab([t \in 1..Len(seq) |-> vol_prior])]

\* -------------------------------------------------------- output normalizer
\* np.linspace(0, 1, resol)
linspace01(resol) ==
    Tab([g \in 1..resol |-> IF resol = 1 THEN Int2R(0) ELSE R(g - 1, resol - 1)])

\* compute_mean_of_dist: dist.transpose().dot(pgrid), one value per trial
compute_mean_of_dist(dist, pgrid) ==
    Tab([t \in 1..Len(dist) |->
        RSum([g \in 1..Len(pgrid) |-> RMul(dist[t][g], pgrid[g])])])

\* compute_sd_of_dist
compute_sd_of_dist(dist, pgrid, Nitem) ==
    LET m == compute_mean_of_dist(dist, pgrid)
        sq == Tab([g \in 1..Len(pgrid) |-> RMul(pgrid[g], pgrid[g])])
        m2 == compute_mean_of_dist(dist, sq)
    IN  Tab([t \in 1..Len(dist) |-> Sqrt(RSub(m2[t], RMul(m[t], m[t])))])

\* An output record: `post` holds the per-pattern entries (tuple keys), `named`
\* the entries under string keys.
fill_output_hmm(post, resol, Nitem) ==
    LET pgrid == linspace01(resol)
    IN  [post |-> Tab([item \in DOMAIN post |->
                    [dist |-> post[item],
                     mean |-> compute_mean_of_dist(post[item], pgrid),
                     SD   |-> compute_sd_of_dist(post[item], pgrid, Nitem)]]),
         named |-> EmptyDict]

\* out[key] = value for a string key
SetKey(out, key, value) == [out EXCEPT !.named = (key :> value) @@ out.named]

\* ------------------------------------------------------------ derived metrics
\* a surprise read from the mean of the same trial instead of the previous
\* one (C5 is tested against it)
compute_surprise_same_trial(seq, out, order) ==
    Tab([i \in 1..Len(seq) |->
        IF i >= (IF order = 0 THEN 2 ELSE order + 1)
           /\ SubSeq(seq, i - order, i) \in DOMAIN out.post
        THEN NegLog2(out.post[SubSeq(seq, i - order, i)].mean[i])
        ELSE NaN])

\* compute_surprise: position i is Python trial t = i - 1, so the mean "at
\* trial t-1" is mean[i - 1]
compute_surprise(seq, out, order) ==
    LET patterns == DOMAIN out.post
        first == IF order = 0 THEN 2 ELSE order + 1
    IN  Tab([i \in 1..Len(seq) |->
            IF i >= first /\ SubSeq(seq, i - order, i) \in patterns
            THEN NegLog2(out.post[SubSeq(seq, i - order, i)].mean[i - 1])
            ELSE NaN])

\* Dirichlet parameters that leave the prior out (C9 is tested against it)
compute_alpha_count_only(seq, out, order, prior, Nitem) ==
    Ok(Tab([c \in Contexts(Nitem, order) |->
            Tab([t \in 1..Len(seq) |->
                Tab([s \in 0..(Nitem - 1) |-> out.named["count"][c \o <<s>>][t]])])]))

\* compute_alpha: alphas[context][trial][item] = count[item] + prior[item]
compute_alpha(seq, out, order, prior, Nitem) ==
    LET count == out.named["count"]
        items == {c \o <<s>> : c \in Contexts(Nitem, order), s \in 0..(Nitem - 1)}
    IN  IF \E item \in items : item \notin DOMAIN count \/ item \notin DOMAIN prior
        THEN Raise("KeyError", "compute_alpha")
        ELSE Ok(Tab([c \in Contexts(Nitem, order) |->
                    Tab([t \in 1..Len(seq) |->
                        Tab([s \in 0..(Nitem - 1) |->
                            RAdd(count[c \o <<s>>][t], prior[c \o <<s>>])])])]))

VSum(alpha) == RSum([s \in 1..Cardinality(DOMAIN alpha) |-> alpha[s - 1]])

\* KL_dirichlet(alpha, beta): the closed form, kept as the arguments of its
\* gammaln and psi terms; with alpha = beta every term cancels to 0
KL_dirichlet(alpha, beta) ==
    IF ~(DOMAIN alpha = DOMAIN beta) THEN Raise("AssertionError", "KL_dirichlet")
    ELSE IF ~((\A s \in DOMAIN alpha : RPos(alpha[s])) /\ (\A s \in DOMAIN beta : RPos(beta[s])))
    THEN Raise("AssertionError", "KL_dirichlet")
    ELSE IF alpha = beta THEN Ok(Int2R(0))
    ELSE Ok([k |-> "kl_dirichlet",
             gammaln_plus  |-> [sum |-> VSum(alpha), each |-> beta],
             gammaln_minus |-> [sum |-> VSum(beta), each |-> alpha],
             dot_left  |-> Tab([s \in DOMAIN alpha |-> RSub(alpha[s], beta[s])]),
             dot_right |-> [psi |-> alpha, psi_sum |-> VSum(alpha)]])

\* the divergence with its two arguments exchanged (C10 is tested against it)
KL_term_exchanged(alphas, c, j) == KL_dirichlet(alphas[c][j], alphas[c][j - 1])

\* The term KL[i, j] of KL(alphas) for context c at position j (trial j - 1 >= 1)
KL_term(alphas, c, j) == KL_dirichlet(alphas[c][j - 1], alphas[c][j])

\* KL(alphas): per trial, the sum over the contexts; NaN at trial 0
KL(alphas) ==
    LET T == Len(alphas[CHOOSE c \in DOMAIN alphas : TRUE])
        term == Tab([c \in DOMAIN alphas |-> Tab([j \in 2..T |-> KL_term(alphas, c, j)])])
    IN  IF \E c \in DOMAIN alphas, j \in 2..T : term[c][j].raised
        THEN Raise("AssertionError", "KL_dirichlet")
        ELSE Ok(Tab([j \in 1..T |->
                    IF j = 1 THEN NaN
                    ELSE [k |-> "sum",
                          terms |-> Tab([c \in DOMAIN alphas |-> term[c][j].v])]]))

compute_bayesian(out) == KL(out.named["alphas"])

\* H0(alphas): per trial, the sum over the contexts of the Dirichlet entropy;
\* scipy rejects a parameter <= 0 with ValueError
H0(alphas) ==
    LET T == Len(alphas[CHOOSE c \in DOMAIN alphas : TRUE])
    IN  IF \E c \in DOMAIN alphas, j \in 1..T :
                \E s \in DOMAIN alphas[c][j] : ~RPos(alphas[c][j][s])
        THEN Raise("ValueError", "dirichlet.entropy")
        ELSE Ok(Tab([j \in 1..T |->
                    [k |-> "sum",
                     terms |-> Tab([c \in DOMAIN alphas |->
                                   [k |-> "entropy", alpha |-> alphas[c][j]]])]]))

\* the hardcoded table p_hat = {2: 1/2, 3: 1/24}
p_hat == (2 :> R(1, 2)) @@ (3 :> R(1, 24))

\* a correction with a default bias for the alphabet sizes p_hat does not list
\* (C8 is tested against it)
compute_confidence_corrected_default(out, Nitem) ==
    IF H0(out.named["alphas"]).raised THEN H0(out.named["alphas"])
    ELSE Ok(Tab([j \in 1..Len(out.named["shannon"]) |->
                IF out.named["shannon"][j].k = "nan" \/ out.named["bayesian"][j].k = "nan"
                THEN NaN
                ELSE [k |-> "cc", shannon |-> out.named["shannon"][j],
                      bayesian |-> out.named["bayesian"][j],
                      H0 |-> H0(out.named["alphas"]).v[j],
                      log |-> IF Nitem \in DOMAIN p_hat THEN p_hat[Nitem] ELSE R(1, 2)]]))

\* compute_confidence_corrected: shannon + bayesian - H0 + log(p_hat[Nitem])
compute_confidence_corrected(out, Nitem) ==
    LET h0 == H0(out.named["alphas"])
        shannon == out.named["shannon"]
        bayesian == out.named["bayesian"]
    IN  IF h0.raised THEN h0
        ELSE IF Nitem \notin DOMAIN p_hat THEN Raise("KeyError", "p_hat")
        ELSE Ok(Tab([j \in 1..Len(shannon) |->
                    IF shannon[j].k = "nan" \/ bayesian[j].k = "nan" THEN NaN
                    ELSE [k |-> "cc", shannon |-> shannon[j], bayesian |-> bayesian[j],
                          H0 |-> h0.v[j], log |-> p_hat[Nitem]]]))

\* ---------------------------------------------------------------- predictions
\* scipy.stats.dirichlet.mean / .var reject a parameter <= 0 with ValueError
dirichlet_moments(Dirichlet_param) ==
    LET a == Dirichlet_param[1]
        b == Dirichlet_param[2]
        a0 == RAdd(a, b)
    IN  IF ~(RPos(a) /\ RPos(b)) THEN Raise("ValueError", "dirichlet.mean")
        ELSE Ok([p0 |-> RDiv(a, a0),
                 SDp0 |-> Sqrt(RDiv(RMul(a, b),
                                    RMul(RMul(a0, a0), RAdd(a0, Int2R(1)))))])

\* add_predictions, "Get the prior": the Dirichlet parameters of the base prior
base_prior(order, options, ObsType) ==
    IF order = 0 /\ Lower(ObsType) = "fixed"
    THEN LET prior == parse_options_fixed_prior(options)
         IN  IF <<0>> \in DOMAIN prior /\ <<1>> \in DOMAIN prior
             THEN Ok(<<prior[<<0>>], prior[<<1>>]>>)
             ELSE Raise("KeyError", "Dirichlet_param")
    ELSE Ok(<<Int2R(1), Int2R(1)>>)

\* a pause test that also looks at the item before the context window (C7 is
\* tested against it)
HasPause_wide(seq, order, Nitem, i) ==
    \E u \in (i - order)..i : seq[u] = Nitem

\* TRUE iff the context window ending at position i holds the pause symbol
HasPause(seq, order, Nitem, i) ==
    \E u \in (i - order + 1)..i : seq[u] = Nitem

\* add_predictions, "Get current prediction"
current_prediction(out, seq, order, Nitem, prior_p0, prior_SDp0) ==
    LET T == Len(seq)
        key(i) == SubSeq(seq, i - order + 1, i) \o <<0>>
        looked == IF order = 0 THEN 1..T
                  ELSE {i \in (order + 1)..T : ~HasPause(seq, order, Nitem, i)}
    IN  IF \E i \in looked : key(i) \notin DOMAIN out.post
        THEN Raise("KeyError", "current_prediction")
        ELSE Ok([p0 |-> Tab([i \in 1..T |->
                            IF i \in looked THEN out.post[key(i)].mean[i] ELSE prior_p0]),
                 SDp0 |-> Tab([i \in 1..T |->
                            IF i \in looked THEN out.post[key(i)].SD[i] ELSE prior_SDp0])])

\* a prior prediction that is not shifted by one trial (C6 is tested against it)
prior_prediction_unshifted(current, prior_value) == current

\* add_predictions, "Get prior prediction": the base prior at trial 0, then the
\* current prediction of the previous trial
prior_prediction(current, prior_value) ==
    Tab([i \in 1..Len(current) |-> IF i = 1 THEN prior_value ELSE current[i - 1]])

\* an alphabet test that lets three items through (C2 is tested against it)
NitemIsLarge_above3(Nitem) == Nitem > 3

\* add_predictions, `if Nitem > 2:`
NitemIsLarge(Nitem) == Nitem > 2

add_predictions(out, seq, order, options, ObsType, Nitem) ==
    IF NitemIsLarge(Nitem)
    THEN Ok(SetKey(SetKey(SetKey(SetKey(out,
                "current_prediction_p0", None),
                "current_prediction_SDp0", None),
                "prior_prediction_p0", None),
                "prior_prediction_SDp0", None))
    ELSE
    LET param == base_prior(order, options, ObsType)
        mom == dirichlet_moments(param.v)
        cur == current_prediction(out, seq, order, Nitem, mom.v.p0, mom.v.SDp0)
    IN  IF param.raised THEN param
        ELSE IF mom.raised THEN mom
        ELSE IF cur.raised THEN cur
        ELSE Ok(SetKey(SetKey(SetKey(SetKey(out,
                "current_prediction_p0", Some(cur.v.p0)),
                "current_prediction_SDp0", Some(cur.v.SDp0)),
                "prior_prediction_p0", Some(prior_prediction(cur.v.p0, mom.v.p0))),
                "prior_prediction_SDp0", Some(prior_prediction(cur.v.SDp0, mom.v.SDp0))))

\* ------------------------------------------------------ observer branches
\* Each branch yields [res, options, engines]: the output record or the
\* exception raised, the options dictionary as the branch leaves it, and the
\* external routines it invoked, in order.

\* IdealObserver, ObsType.lower() == 'fixed', "Fill output": the per-pattern
\* entries and out['surprise'], out['count']
fixed_fill(post, count, seq, order) ==
    LET out0 == [post |-> Tab([item \in DOMAIN post.mean |->
                            [mean |-> post.mean[item],
                             MAP  |-> post.MAP[item],
                             SD   |-> post.SD[item]]]),
                 named |-> EmptyDict]
    IN  SetKey(SetKey(out0, "surprise", compute_surprise(seq, out0, order)),
               "count", count)

\* out['alphas'] = compute_alpha(seq, out, order, prior, Nitem)
fixed_alphas(out, seq, order, prior, Nitem) ==
    LET alphas == compute_alpha(seq, out, order, prior, Nitem)
    IN  IF alphas.raised THEN alphas ELSE Ok(SetKey(out, "alphas", alphas.v))

\* out['shannon'] = out['surprise']; out['bayesian'] = compute_bayesian(out)
fixed_bayesian(r) ==
    IF r.raised THEN r
    ELSE LET out == SetKey(r.v, "shannon", r.v.named["surprise"])
             bayesian == compute_bayesian(r.v)
         IN  IF bayesian.raised THEN bayesian
             ELSE Ok(SetKey(out, "bayesian", bayesian.v))

\* a fixed branch that computes the corrected confidence without storing it
\* (C4 is tested against it)
fixed_confidence_corrected_unstored(r, Nitem) ==
    IF r.raised THEN r
    ELSE IF compute_confidence_corrected(r.v, Nitem).raised
    THEN compute_confidence_corrected(r.v, Nitem)
    ELSE r

\* out['confidence-corrected'] = compute_confidence_corrected(out, Nitem)
fixed_confidence_corrected(r, Nitem) ==
    IF r.raised THEN r
    ELSE LET cc == compute_confidence_corrected(r.v, Nitem)
         IN  IF cc.raised THEN cc
             ELSE Ok(SetKey(r.v, "confidence-corrected", cc.v))

\* the fixed branch once the prior, the counts and the posterior are known
fixed_output(post, count, prior, seq, order, Nitem) ==
    IF post.raised THEN post
    ELSE fixed_confidence_corrected(
            fixed_bayesian(
                fixed_alphas(fixed_fill(post.v, count, seq, order),
                             seq, order, prior, Nitem)),
            Nitem)

\* count_tuple and posterior_no_jump, then the output
fixed_posterior(prior, dw, seq, order, Nitem) ==
    LET count == count_tuple(seq, order, Nitem, dw.Decay, dw.Window)
    IN  fixed_output(posterior_no_jump(count, prior, Nitem, order), count, prior,
                     seq, order, Nitem)

\* IdealObserver, ObsType.lower() == 'fixed'
fixed_options(order, Nitem, options) ==
    ("order" :> order) @@ ("Nitem" :> Nitem) @@ options

fixed_branch(seq, order, Nitem, options0) ==
    [res |-> fixed_posterior(parse_options_fixed_prior(fixed_options(order, Nitem, options0)),
                             parse_options_fixed_type(fixed_options(order, Nitem, options0)),
                             seq, order, Nitem),
     options |-> fixed_options(order, Nitem, options0),
     engines |-> <<"io_fixed.count_tuple", "io_fixed.posterior_no_jump">>]

\* IdealObserver, ObsType.lower() == 'hmm'
hmm_branch(seq, order, Nitem, options, seed) ==
    LET par == parse_options_hmm_param(options)
        marg_post == io_hmm_compute_inference(seq, par.v.resol, order, Nitem,
                                              par.v.p_c, seed)
        out0 == fill_output_hmm(marg_post, par.v.resol, Nitem)
    IN  IF par.raised
        THEN [res |-> par, options |-> options, engines |-> <<>>]
        ELSE [res |-> Ok(SetKey(out0, "surprise", compute_surprise(seq, out0, order))),
              options |-> options,
              engines |-> <<"io_hmm.compute_inference">>]

\* IdealObserver, ObsType.lower() == 'hmm_uncoupled'
hmm_uncoupled_branch(seq, order, Nitem, options, seed) ==
    LET par == parse_options_hmm_param(options)
        conv_seq == io_hmm_unc_convert_to_order0(seq, Nitem, order)
        post_all_items == Tab([cond \in DOMAIN conv_seq |->
            io_hmm_unc_compute_inference(conv_seq[cond], par.v.resol, Nitem,
                                         par.v.p_c, seed)])
        keys == {cond \o item : cond \in DOMAIN conv_seq, item \in Patterns(Nitem, 0)}
        marg_post == Tab([key \in keys |->
                        post_all_items[Front(key)][<<Last(key)>>]])
        out0 == fill_output_hmm(marg_post, par.v.resol, Nitem)
    IN  IF par.raised
        THEN [res |-> par, options |-> options, engines |-> <<>>]
        ELSE [res |-> Ok(SetKey(out0, "surprise", compute_surprise(seq, out0, order))),
              options |-> options,
              engines |-> <<"io_hmm_unc.convert_to_order0",
                            "io_hmm_unc.compute_inference">>]

\* IdealObserver, ObsType.lower() == 'hmm+full' and 'hmm_uncoupled+full': the
\* two branches differ only in the engine module they call
full_branch(seq, order, Nitem, options, seed, engine) ==
    LET par == parse_options_hmm_full(options)
        res == posterior_prediction(seq, order, Nitem, par.v.resol, par.v.grid_nu,
                                    par.v.prior_nu, seed)
        out0 == fill_output_hmm(res.marg_theta, par.v.resol, Nitem)
        out1 == SetKey(out0, "surprise", compute_surprise(seq, out0, order))
    IN  IF par.raised
        THEN [res |-> par, options |-> options, engines |-> <<>>]
        ELSE [res |-> Ok(SetKey(out1, "volatility", res.post_nu)),
              options |-> options,
              engines |-> <<engine>>]

hmm_full_branch(seq, order, Nitem, options, seed) ==
    full_branch(seq, order, Nitem, options, seed, "io_hmm_vol.posterior_prediction")

hmm_uncoupled_full_branch(seq, order, Nitem, options, seed) ==
    full_branch(seq, order, Nitem, options, seed,
                "io_hmm_uncoupled_vol.posterior_prediction")

\* ------------------------------------------------------------ state machine
VARIABLES
    pc,         \* "idle", "dispatch", "predict", "returned", "raised"
    seq,        \* the arguments of the call in progress
    ObsType,
    order,
    NitemArg,   \* the Nitem argument: None or Some(n)
    Nitem,      \* the alphabet size in use (0 until it is resolved)
    optionsArg, \* the options argument: None or a dictionary
    options,    \* the options dictionary in use (None until it is checked)
    out,        \* the output record under construction, then returned
    exc,        \* the exception raised (NoExc if none)
    branches,   \* the observer branches the call has run
    engines     \* the external routines the call has invoked, in order

vars == <<pc, seq, ObsType, order, NitemArg, Nitem, optionsArg, options, out, exc,
          branches, engines>>

NoOut == [post |-> EmptyDict, named |-> EmptyDict]
NoExc == [type |-> "", at |-> ""]

ObserverTypes == {"fixed", "hmm", "hmm_uncoupled", "hmm+full", "hmm_uncoupled+full"}

Init ==
    /\ pc = "idle"
    /\ seq = <<>>
    /\ ObsType = ""
    /\ order = 0
    /\ NitemArg = None
    /\ Nitem = 0
    /\ optionsArg = None
    /\ options = None
    /\ out = NoOut
    /\ exc = NoExc
    /\ branches = {}
    /\ engines = <<>>

\* IdealObserver(seq, ObsType, order, Nitem, options) up to the first branch
\* test: check_options, then the default of Nitem
Call(s, ot, k, n, o) ==
    /\ pc = "idle"
    /\ seq' = s
    /\ ObsType' = ot
    /\ order' = k
    /\ NitemArg' = n
    /\ optionsArg' = o
    /\ \E checked \in {check_options(o)} :
           IF checked.raised
           THEN /\ options' = None
                /\ Nitem' = 0
                /\ exc' = checked.exc
                /\ pc' = "raised"
           ELSE /\ options' = checked.v
                /\ Nitem' = IF n.none THEN Cardinality({s[i] : i \in 1..Len(s)}) ELSE n.v
                /\ exc' = NoExc
                /\ pc' = "dispatch"
    /\ UNCHANGED <<out, branches, engines>>

\* the common end of a branch
Branch(name, r) ==
    /\ branches' = branches \cup {name}
    /\ engines' = engines \o r.engines
    /\ options' = r.options
    /\ IF r.res.raised
       THEN /\ exc' = r.res.exc
            /\ pc' = "raised"
            /\ out' = out
       ELSE /\ out' = r.res.v
            /\ pc' = "predict"
            /\ exc' = exc
    /\ UNCHANGED <<seq, ObsType, order, NitemArg, Nitem, optionsArg>>

Fixed ==
    /\ pc = "dispatch"
    /\ Lower(ObsType) = "fixed"
    /\ \E r \in {fixed_branch(seq, order, Nitem, options)} : Branch("fixed", r)

Hmm(seed) ==
    /\ pc = "dispatch"
    /\ Lower(ObsType) = "hmm"
    /\ \E r \in {hmm_branch(seq, order, Nitem, options, seed)} : Branch("hmm", r)

HmmUncoupled(seed) ==
    /\ pc = "dispatch"
    /\ Lower(ObsType) = "hmm_uncoupled"
    /\ \E r \in {hmm_uncoupled_branch(seq, order, Nitem, options, seed)} : Branch("hmm_uncoupled", r)

HmmFull(seed) ==
    /\ pc = "dispatch"
    /\ Lower(ObsType) = "hmm+full"
    /\ \E r \in {hmm_full_branch(seq, order, Nitem, options, seed)} : Branch("hmm+full", r)

HmmUncoupledFull(seed) ==
    /\ pc = "dispatch"
    /\ Lower(ObsType) = "hmm_uncoupled+full"
    /\ \E r \in {hmm_uncoupled_full_branch(seq, order, Nitem, options, seed)} :
            Branch("hmm_uncoupled+full", r)

\* no branch test matches: `out` is never bound and the add_predictions call
\* reads an unbound local
NoBranch ==
    /\ pc = "dispatch"
    /\ Lower(ObsType) \notin ObserverTypes
    /\ exc' = [type |-> "UnboundLocalError", at |-> "out"]
    /\ pc' = "raised"
    /\ UNCHANGED <<seq, ObsType, order, NitemArg, Nitem, optionsArg, options, out,
                   branches, engines>>

\* out = add_predictions(out, seq, order, options, ObsType, Nitem); return out
AddPredictions ==
    /\ pc = "predict"
    /\ \E r \in {add_predictions(out, seq, order, options, ObsType, Nitem)} :
           IF r.raised
           THEN /\ exc' = r.exc
                /\ pc' = "raised"
                /\ out' = out
           ELSE /\ out' = r.v
                /\ pc' = "returned"
                /\ exc' = exc
    /\ UNCHANGED <<seq, ObsType, order, NitemArg, Nitem, optionsArg, options,
                   branches, engines>>

\* the call is over; nothing persists to the next one
Finish ==
    /\ pc \in {"returned", "raised"}
    /\ pc' = "idle"
    /\ seq' = <<>>
    /\ ObsType' = ""
    /\ order' = 0
    /\ NitemArg' = None
    /\ Nitem' = 0
    /\ optionsArg' = None
    /\ options' = None
    /\ out' = NoOut
    /\ exc' = NoExc
    /\ branches' = {}
    /\ engines' = <<>>

Next ==
    \/ /\ pc = "idle"
       /\ \E s \in SeqChoices, ot \in ObsTypeChoices, k \in OrderChoices,
             n \in NitemChoices :
                \E o \in OptionChoices(ot) : Call(s, ot, k, n, o)
    \/ Fixed
    \/ \E seed \in EngineSeeds : Hmm(seed)
    \/ \E seed \in EngineSeeds : HmmUncoupled(seed)
    \/ \E seed \in EngineSeeds : HmmFull(seed)
    \/ \E seed \in EngineSeeds : HmmUncoupledFull(seed)
    \/ NoBranch
    \/ AddPredictions
    \/ Finish

Spec == Init /\ [][Next]_vars

\* ------------------------------------------------------------------ claims
\* the call is over: it returned its record or raised
Done == pc \in {"returned", "raised"}
\* a branch has run and the record it built is in `out`
HasRecord == pc \in {"predict", "returned"}

PredictionKeys ==
    {"current_prediction_p0", "current_prediction_SDp0",
     "prior_prediction_p0", "prior_prediction_SDp0"}
FixedKeys == {"count", "alphas", "shannon", "bayesian", "confidence-corrected"}
FullTypes == {"hmm+full", "hmm_uncoupled+full"}

PredictionsAllNone ==
    \A key \in PredictionKeys : key \in DOMAIN out.named /\ out.named[key] = None

\* the call raised while resolving its options or because of the prior they
\* configure
FailedOnOptions ==
    pc = "raised" /\ exc.at \in {"check_options", "parse_options", "prior",
                                 "compute_alpha", "KL_dirichlet", "dirichlet.entropy"}
\* the call raised inside add_predictions
FailedInPredictions ==
    pc = "raised" /\ exc.at \in {"Dirichlet_param", "dirichlet.mean", "current_prediction"}

\* C1 (as stated): a call of the fixed observer on a binary alphabet with the
\* options argument omitted returns an output record; it does not fail because
\* options is None.
C1_OptionsOmittedReturns ==
    (Done /\ Lower(ObsType) = "fixed" /\ NitemArg = Some(2) /\ optionsArg = None)
        => pc = "returned"

\* C2 (as stated): for every observer type and every sequence, with Nitem > 2
\* a call whose options are in order returns a record whose four prediction
\* entries are all None.
C2_LargeAlphabetAlwaysReturns ==
    (Done /\ Lower(ObsType) \in ObserverTypes /\ Nitem > 2 /\ ~FailedOnOptions)
        => (pc = "returned" /\ PredictionsAllNone)

\* C2 (amended): with Nitem > 2 add_predictions cannot raise and every record
\* the call returns has the four prediction entries None; a call whose options
\* are in order returns such a record for the four change-point types and, for
\* the fixed type, with Nitem = 3 only: with Nitem > 3 the fixed branch raises
\* before add_predictions is reached.
C2_LargeAlphabetPredictionsNone ==
    (Done /\ Lower(ObsType) \in ObserverTypes /\ Nitem > 2) =>
        /\ pc = "returned" => PredictionsAllNone
        /\ ~FailedInPredictions
        /\ ~FailedOnOptions =>
              (pc = "returned" <=> (Lower(ObsType) # "fixed" \/ Nitem = 3))

C2_LargeAlphabetWitness ==
    /\ pc = "returned"
    /\ Lower(ObsType) = "hmm_uncoupled+full"
    /\ Nitem = 4
    /\ PredictionsAllNone

\* C3 (as stated): for each of the four change-point types, a call whose
\* options dictionary has no 'p_c' key fails with ValueError before any engine
\* is invoked.
C3_AllHmmTypesRequirePc ==
    (branches # {} /\ Lower(ObsType) \in ObserverTypes \ {"fixed"}
        /\ "p_c" \notin DOMAIN options)
        => (pc = "raised" /\ exc.type = "ValueError" /\ engines = <<>>)

\* C3 (amended): for the types hmm and hmm_uncoupled, a call whose options
\* dictionary has no 'p_c' key (in any letter case) fails with ValueError
\* before any engine is invoked and returns no record.
C3_HmmParamRequiresPc ==
    (branches # {} /\ Lower(ObsType) \in {"hmm", "hmm_uncoupled"}
        /\ "p_c" \notin DOMAIN options)
        => (pc = "raised" /\ exc = [type |-> "ValueError", at |-> "parse_options"]
            /\ engines = <<>>)

C3_MissingPcWitness ==
    /\ pc = "raised"
    /\ ObsType = "Hmm_Uncoupled"
    /\ optionsArg = [grid_nu |-> <<R(1, 2), R(1, 4)>>]
    /\ exc.type = "ValueError"
    /\ engines = <<>>

\* C4: a call runs at most one observer branch; a returned record comes from
\* exactly the branch of the lower-cased type and holds 'surprise' and the four
\* prediction keys; 'count', 'alphas', 'shannon', 'bayesian' and
\* 'confidence-corrected' are present iff the type is fixed, 'volatility' iff
\* the type is 'hmm+full' or 'hmm_uncoupled+full'.
C4_BranchAndKeys ==
    /\ Cardinality(branches) <= 1
    /\ pc = "returned" =>
        /\ Lower(ObsType) \in ObserverTypes
        /\ branches = {Lower(ObsType)}
        /\ ({"surprise"} \cup PredictionKeys) \subseteq DOMAIN out.named
        /\ \A key \in FixedKeys :
                key \in DOMAIN out.named <=> Lower(ObsType) = "fixed"
        /\ "volatility" \in DOMAIN out.named <=> Lower(ObsType) \in FullTypes

C4_MixedCaseWitness ==
    /\ pc = "returned"
    /\ ObsType = "HMM+Full"
    /\ branches = {"hmm+full"}
    /\ "volatility" \in DOMAIN out.named
    /\ "count" \notin DOMAIN out.named

\* the (order+1)-pattern realized at position i (trial i - 1 >= order)
Realized(i) == SubSeq(seq, i - order, i)

\* C5 (as stated): for every trial t >= order whose realized pattern is a key
\* of the output, surprise[t] is defined and, wherever a trial t-1 exists, is
\* -log2 of the pattern's mean at index t-1; every other trial is NaN.
C5_SurpriseFromOrder ==
    HasRecord =>
        \A i \in 1..Len(seq) :
            IF i - 1 >= order /\ Realized(i) \in DOMAIN out.post
            THEN /\ out.named["surprise"][i] # NaN
                 /\ i >= 2 => out.named["surprise"][i]
                                = NegLog2(out.post[Realized(i)].mean[i - 1])
            ELSE out.named["surprise"][i] = NaN

\* C5 (amended): for every trial t >= max(order, 1) whose realized pattern is
\* a key of the output, surprise[t] is -log2 of the pattern's mean at index
\* t-1; trial 0, every trial t < order and every trial whose realized pattern
\* is not a key are NaN.
C5_SurpriseFromFirstTrial ==
    HasRecord =>
        \A i \in 1..Len(seq) :
            IF i >= 2 /\ i - 1 >= order /\ Realized(i) \in DOMAIN out.post
            THEN out.named["surprise"][i]
                    = NegLog2(out.post[Realized(i)].mean[i - 1])
            ELSE out.named["surprise"][i] = NaN

C5_SurpriseWitness ==
    /\ pc = "returned"
    /\ order = 0
    /\ Len(seq) = 2
    /\ <<seq[1]>> \in DOMAIN out.post /\ <<seq[2]>> \in DOMAIN out.post
    /\ out.named["surprise"][1] = NaN
    /\ out.named["surprise"][2] # NaN
    /\ out.post[<<seq[2]>>].mean[1] # out.post[<<seq[2]>>].mean[2]

\* the mean and SD of the base prior of add_predictions
BasePriorMoments ==
    IF order = 0 /\ Lower(ObsType) = "fixed"
    THEN dirichlet_moments(<<parse_options_fixed_prior(options)[<<0>>],
                             parse_options_fixed_prior(options)[<<1>>]>>).v
    ELSE [p0 |-> R(1, 2), SDp0 |-> Sqrt(R(1, 12))]

Window(i) == SubSeq(seq, i - order + 1, i)

\* C7: with Nitem = 2 and order > 0, in a returned record, for every trial
\* t >= order: if a symbol of the trailing context window is the pause sentinel
\* (value Nitem) the current prediction and its SD are the base prior's
\* (Dirichlet(1,1): 1/2 and sqrt(1/12)), otherwise they are the mean and SD at
\* index t of the pattern (window, 0); for every trial t < order they are the
\* base prior's.
C7_PauseFallsBackToPrior ==
    (pc = "returned" /\ Nitem = 2 /\ order > 0) =>
        \A i \in 1..Len(seq) :
            IF i - 1 >= order /\ \A u \in 1..order : Window(i)[u] # Nitem
            THEN /\ out.named["current_prediction_p0"].v[i]
                        = out.post[Window(i) \o <<0>>].mean[i]
                 /\ out.named["current_prediction_SDp0"].v[i]
                        = out.post[Window(i) \o <<0>>].SD[i]
            ELSE /\ out.named["current_prediction_p0"].v[i] = R(1, 2)
                 /\ out.named["current_prediction_SDp0"].v[i] = Sqrt(R(1, 12))

C7_PauseWitness ==
    /\ pc = "returned"
    /\ Nitem = 2 /\ order = 1
    /\ seq = <<1, 2>>
    /\ out.named["current_prediction_p0"].v[2] = R(1, 2)
    /\ out.post[<<1, 0>>].mean[2] # R(1, 2)

\* C8: under the fixed observer with Nitem not 2 or 3 the call returns no
\* record: it raises, at the lookup of Nitem in p_hat unless the options
\* already made it fail, and no record ever holds a 'confidence-corrected'
\* entry computed with a substituted bias.
C8_UnsupportedAlphabetFails ==
    (Lower(ObsType) = "fixed" /\ Nitem \notin {2, 3} /\ pc \notin {"idle", "dispatch"}) =>
        /\ pc = "raised"
        /\ "confidence-corrected" \notin DOMAIN out.named
        /\ FailedOnOptions \/ exc = [type |-> "KeyError", at |-> "p_hat"]

C8_UnsupportedAlphabetWitness ==
    /\ pc = "raised"
    /\ Lower(ObsType) = "fixed"
    /\ Nitem = 4
    /\ optionsArg = EmptyDict
    /\ exc = [type |-> "KeyError", at |-> "p_hat"]

\* the prior holds a strictly positive pseudo-count for every pattern
PositiveOn(prior) ==
    \A p \in Patterns(Nitem, order) : p \in DOMAIN prior /\ RPos(prior[p])
\* the prior holds a pseudo-count for every pattern
CompleteOn(prior) == Patterns(Nitem, order) \subseteq DOMAIN prior
\* the prior the fixed observer resolves from its options is such a prior
PriorComplete == CompleteOn(parse_options_fixed_prior(options))
PriorPositive == PositiveOn(parse_options_fixed_prior(options))
\* the alpha table of the record: one entry per context, each count + prior,
\* every entry strictly positive
WellFormedWith(alphas, count, prior) ==
    /\ DOMAIN alphas = Contexts(Nitem, order)
    /\ \A c \in Contexts(Nitem, order), t \in 1..Len(seq), s \in 0..(Nitem - 1) :
        /\ alphas[c][t][s] = RAdd(count[c \o <<s>>][t], prior[c \o <<s>>])
        /\ RPos(alphas[c][t][s])
AlphasWellFormed ==
    WellFormedWith(out.named["alphas"], out.named["count"],
                   parse_options_fixed_prior(options))
\* the call raised because an alpha entry is not strictly positive, or because
\* the prior lacks a pattern
FailedOnAlpha ==
    pc = "raised" /\ exc.at \in {"prior", "compute_alpha", "KL_dirichlet",
                                 "dirichlet.entropy"}

C10_KLPosteriorFirst ==
    (HasRecord /\ Lower(ObsType) = "fixed") =>
        /\ out.named["bayesian"][1] = NaN
        /\ \A j \in 2..Len(seq) :
            /\ out.named["bayesian"][j].k = "sum"
            /\ DOMAIN out.named["bayesian"][j].terms = Contexts(Nitem, order)
            /\ \A c \in Contexts(Nitem, order) :
                out.named["bayesian"][j].terms[c]
                    = KL_dirichlet(out.named["alphas"][c][j],
                                   out.named["alphas"][c][j - 1]).v

\* C10 (amended): bayesian[0] is NaN and for every trial t >= 1 bayesian[t] is
\* the sum over the contexts c of KL(Dir(alpha[c][t-1]) || Dir(alpha[c][t])):
\* the first argument is the parameter vector at trial t-1, the second the one
\* at trial t.
C10_KLPreviousFirst ==
    (HasRecord /\ Lower(ObsType) = "fixed") =>
        /\ out.named["bayesian"][1] = NaN
        /\ \A j \in 2..Len(seq) :
            /\ out.named["bayesian"][j].k = "sum"
            /\ DOMAIN out.named["bayesian"][j].terms = Contexts(Nitem, order)
            /\ \A c \in Contexts(Nitem, order) :
                out.named["bayesian"][j].terms[c]
                    = KL_dirichlet(out.named["alphas"][c][j - 1],
                                   out.named["alphas"][c][j]).v

C10_KLWitness ==
    /\ pc = "returned"
    /\ Lower(ObsType) = "fixed"
    /\ order = 1 /\ Nitem = 2 /\ seq = <<0, 1>>
    /\ optionsArg = EmptyDict
    /\ out.named["bayesian"][2].terms[<<0>>].k = "kl_dirichlet"
    /\ out.named["bayesian"][2].terms[<<1>>] = Int2R(0)

====
